---- MODULE Spec2Model ----
(***************************************************************************)
(* k3sd: the resumable provisioning state machine.                         *)
(*                                                                         *)
(* One invocation of cli/main.go loads the fleet from the state file, runs *)
(* CreateCluster or UninstallCluster over it and saves it back.  The model *)
(* follows the control thread statement by statement; every remote         *)
(* operation (dial, command, script, manifest apply) draws its outcome     *)
(* nondeterministically.  What an earlier invocation left behind is the    *)
(* state file the invocation starts from.                                  *)
(***************************************************************************)
EXTENDS Integers, Sequences, FiniteSets, TLC

(* ------------------------------ bounds --------------------------------- *)
\* number of clusters in the state file
NumClusters == 2
\* number of workers of each cluster
NumWorkers == 2
\* length of the texts given to the text functions of manifest.go
MaxTextLen == 6
\* number of tokens of the texts given to applySubstitutions
MaxTokens == 3
\* number of documents of the manifests given to applyYAMLManifest
MaxDocs == 2
\* number of entries of the ~/.ssh directory walked by sshConnect
MaxKeyFiles == 2
\* number of lines a remote command writes to each of its streams
MaxLines == 2
\* number of messages produced for the busiest class of the Logger beyond
\* those already queued
MaxBurst == 2

ClusterIds == 1..NumClusters
WorkerIds == 1..NumWorkers

(* ------------------------------ data model ----------------------------- *)
\* model.go: Worker (only the field the orchestration reads and writes)
Worker == [Done : BOOLEAN]
\* model.go: Cluster embeds Worker (Done) and adds PrivateNet and Workers
Cluster == [Done : BOOLEAN, PrivateNet : BOOLEAN, Workers : [WorkerIds -> Worker]]

\* create.go: baseClusterCommands, the bootstrap sequence of a control plane
baseClusterCommands ==
    << "sudo apt-get update -y",
       "sudo apt-get install curl wget zip unzip -y",
       "curl -sfL https://get.k3s.io | INSTALL_K3S_EXEC=... sh -",
       "sleep 10" >>
\* cli/main.go: CreateCluster(clusters, logger, []string{})
additional == << >>
\* create.go: joinCmds when cluster.PrivateNet (relayed through the control plane)
joinCmdsRelay ==
    << "ssh worker \"sudo apt update && sudo apt install -y curl\"",
       "ssh worker \"curl -sfL https://get.k3s.io | K3S_URL=... sh -\"" >>
\* create.go: joinCmds on a direct connection to the worker
joinCmdsDirect ==
    << "sudo apt update && sudo apt install -y curl",
       "curl -sfL https://get.k3s.io | K3S_URL=... sh -" >>
\* uninstall.go: the single command that uninstalls a worker / the master
uninstallWorkerCmds == << "ssh worker \"k3s-agent-uninstall.sh\"" >>
uninstallMasterCmds == << "k3s-uninstall.sh" >>

\* create.go Step 3: the optional components in the order the code tests them
OptionalComponents ==
    << "cert-manager", "traefik-values", "clusterissuer", "gitea",
       "gitea-ingress", "prometheus", "linkerd", "linkerd-mc" >>
\* components installed by runLinkerdInstall (pipeAndApply)
LinkerdComponents == {"linkerd", "linkerd-mc"}
\* flags.go ParseFlags: the keys of utils.Flags
FlagKeys == {OptionalComponents[i] : i \in 1..Len(OptionalComponents)}

VARIABLES
    stateFile,   \* the persisted fleet (clusters.json)
    clusters,    \* the in-memory fleet of the running process
    Flags,       \* utils.Flags
    Uninstall,   \* utils.Uninstall
    pc,          \* position of the control thread
    ci, wi, oi,  \* cluster index, worker index, optional component index
    ex,          \* the ExecuteCommands call in progress (or just returned)
    err,         \* the error that ended the process ("none" while running)
    open,        \* SSH connections currently open: <<c, 0>> to the control
                 \* plane of cluster c, <<c, 1>> directly to workers of c
    op,          \* the remote operation the last step performed
    fetched      \* saveKubeConfig was called for clusters[ci] in this run

\* The functions and tasks the orchestration calls are also studied on their
\* own, each in a specification of its own with its own state:
VARIABLES
    mf,          \* a call of a function of manifest.go (splitYAMLDocs,
                 \* applySubstitutions, applyYAMLManifest)
    helm,        \* a call of installHelmChartNative
    conn,        \* a call of sshConnect
    run,         \* a call of runCommand with its two streamOutput tasks
    lg,          \* the Logger: its four queues, producers and consumers
    kc,          \* a call of patchKubeConfigKeys
    feed         \* the lines of a remote command on their way to the log

\* the state of the orchestration
fleet == << stateFile, clusters, Flags, Uninstall, pc, ci, wi, oi, ex, err,
            open, op, fetched >>
\* the state of the separately studied functions and tasks
components == << mf, helm, conn, run, lg, kc, feed >>

vars == << fleet, components >>

\* no call of a component is in progress
Idle == [fn |-> "none"]
ComponentsIdle ==
    mf = Idle /\ helm = Idle /\ conn = Idle /\ run = Idle /\ lg = Idle /\ kc = Idle /\ feed = Idle

\* a remote operation: its kind, the cluster and worker (0: the control
\* plane) it is for, the index of the command or component, its success
Op(kind, c, w, k, ok) == [kind |-> kind, c |-> c, w |-> w, k |-> k, ok |-> ok]
NoOp == Op("none", 0, 0, 0, TRUE)

NoCall == [ctx |-> "none", cmds |-> << >>, k |-> 0, started |-> << >>, ok |-> 0, ret |-> "none"]
\* the frame of a call ExecuteCommands(client, cmds, logger): the list, the
\* loop index, the commands started so far, how many of them have completed
\* successfully, and what the call returned
Call(ctx, cmds) ==
    [ctx |-> ctx, cmds |-> cmds, k |-> 1, started |-> << >>, ok |-> 0, ret |-> "running"]

(* ------------------------------ initial state -------------------------- *)
\* flags.go 68-75: every component flag defaults to false
DefaultFlags == [f \in FlagKeys |-> FALSE]

\* a cluster as the operator lists it, or as a completed run leaves it:
\* the control plane and every worker have the same done flag
UniformCluster(done, private) ==
    [Done |-> done, PrivateNet |-> private, Workers |-> [w \in WorkerIds |-> [Done |-> done]]]

\* every cluster of the fleet is on the same kind of network
SameNet(f) == \A c, d \in ClusterIds : f[c].PrivateNet = f[d].PrivateNet

\* The process has parsed its command line and is about to load the state
\* file.  Two families of invocations are explored: any done flags in the
\* state file with the default component flags, and any component flags
\* with a fleet of fresh and of completed clusters.
Init ==
    /\ \/ /\ stateFile \in {f \in [ClusterIds -> Cluster] : SameNet(f)}
          /\ Flags = DefaultFlags
          /\ Uninstall \in BOOLEAN
       \/ /\ \E private \in BOOLEAN, done \in [ClusterIds -> BOOLEAN] :
                stateFile = [c \in ClusterIds |-> UniformCluster(done[c], private)]
          /\ Flags \in [FlagKeys -> BOOLEAN]
          /\ Uninstall = FALSE
    /\ clusters = stateFile
    /\ pc = "start"
    /\ ci = 1 /\ wi = 1 /\ oi = 1
    /\ ex = NoCall
    /\ err = "none"
    /\ open = {}
    /\ op = NoOp
    /\ fetched = FALSE
    /\ ComponentsIdle

(* ------------------------------ cli/main.go ---------------------------- *)
\* log.Fatalf: the process exits with error e; SaveClusters is not reached.
\* Its sockets are closed with it.
Fatal(e) == pc' = "fatal" /\ err' = e /\ open' = {}

\* main, lines 22-55: LoadClusters, checkCommandExists, then the branch on
\* utils.Uninstall (with the confirmation prompt)
Main ==
    /\ pc = "start"
    /\ \E loaded \in BOOLEAN, tools \in BOOLEAN, yes \in BOOLEAN :
         IF ~(loaded /\ tools)
           THEN \* LoadClusters failed or a required tool is missing: log.Fatalf
                Fatal(IF loaded THEN "tools" ELSE "load") /\ UNCHANGED clusters
           ELSE /\ clusters' = stateFile
                /\ pc' = IF Uninstall THEN (IF yes THEN "unconnect" ELSE "done")
                                      ELSE "connect"
                /\ UNCHANGED << err, open >>
    /\ UNCHANGED << stateFile, Flags, Uninstall, ci, wi, oi, ex, op, fetched >>
    /\ UNCHANGED components

\* main, lines 57-59: SaveClusters(utils.ConfigPath, clusters)
SaveClusters ==
    /\ pc = "save"
    /\ \E written \in BOOLEAN :
         IF written
           THEN stateFile' = clusters /\ pc' = "done" /\ UNCHANGED << err, open >>
           ELSE UNCHANGED stateFile /\ Fatal("save")
    /\ op' = NoOp /\ ex' = NoCall
    /\ UNCHANGED << clusters, Flags, Uninstall, ci, wi, oi, fetched >>
    /\ UNCHANGED components

(* ------------------------------ ExecuteCommands ------------------------ *)
\* variant: the worker index is carried over to the next cluster
NextClusterKeepsWorker(after) ==
    /\ wi' = wi
    /\ IF ci < NumClusters
         THEN ci' = ci + 1 /\ pc' = after /\ UNCHANGED open
         ELSE ci' = ci /\ pc' = "save" /\ open' = {}

\* the end of one iteration of the cluster loop: the next cluster, or
\* `return clusters, nil`, where the deferred Close calls run
NextCluster(after) ==
    /\ wi' = 1
    /\ IF ci < NumClusters
         THEN ci' = ci + 1 /\ pc' = after /\ UNCHANGED open
         ELSE ci' = ci /\ pc' = "save" /\ open' = {}

\* variant: the cluster is marked done before the result is examined
AfterBootstrapMarkedFirst(ok) ==
    /\ clusters' = [clusters EXCEPT ![ci].Done = TRUE]
    /\ IF ok
         THEN pc' = "kubeconfig" /\ UNCHANGED << err, open, ci, wi >>
         ELSE Fatal("bootstrap") /\ UNCHANGED << ci, wi >>

\* create.go 252-256: what follows ExecuteCommands(client, baseCmds, logger)
AfterBootstrap(ok) ==
    IF ok
      THEN /\ clusters' = [clusters EXCEPT ![ci].Done = TRUE]
           /\ pc' = "kubeconfig"
           /\ UNCHANGED << err, open, ci, wi >>
      ELSE \* return nil, fmt.Errorf("exec master: %v", err)
           Fatal("bootstrap") /\ UNCHANGED << clusters, ci, wi >>

\* variant: a failed join takes the worker's done flag back
AfterJoinRollback(ok) ==
    IF ok
      THEN pc' = "label" /\ UNCHANGED << clusters, err, open, ci, wi >>
      ELSE /\ clusters' = [clusters EXCEPT ![ci].Workers[wi].Done = FALSE]
           /\ Fatal("join") /\ UNCHANGED << ci, wi >>

\* create.go 385-387 and 400-402: what follows ExecuteCommands(.., joinCmds, ..)
AfterJoin(ok) ==
    IF ok
      THEN pc' = "label" /\ UNCHANGED << clusters, err, open, ci, wi >>
      ELSE \* return nil, fmt.Errorf("worker join %s: %v", ...)
           Fatal("join") /\ UNCHANGED << clusters, ci, wi >>

\* uninstall.go 37-43: the error of the worker's uninstall command is only
\* logged, then clusters[ci].Workers[wi].Done = false
AfterUninstallWorker(ok) ==
    /\ clusters' = [clusters EXCEPT ![ci].Workers[wi].Done = FALSE]
    /\ wi' = wi + 1
    /\ pc' = "unworkers"
    /\ UNCHANGED << err, open, ci >>

\* variant: a failed uninstall of the master leaves its done flag
AfterUninstallMasterKept(ok) ==
    /\ clusters' = IF ok THEN [clusters EXCEPT ![ci].Done = FALSE] ELSE clusters
    /\ NextCluster("unconnect")
    /\ UNCHANGED err

\* uninstall.go 46-52: the error of the master's uninstall command is only
\* logged, then clusters[ci].Done = false; the loop goes on
AfterUninstallMaster(ok) ==
    /\ clusters' = [clusters EXCEPT ![ci].Done = FALSE]
    /\ NextCluster("unconnect")
    /\ UNCHANGED err

\* the caller's statement after ExecuteCommands returns
Return(ctx, ok) ==
    CASE ctx = "bootstrap"       -> AfterBootstrap(ok)
      [] ctx = "join"            -> AfterJoin(ok)
      [] ctx = "uninstallWorker" -> AfterUninstallWorker(ok)
      [] ctx = "uninstallMaster" -> AfterUninstallMaster(ok)

\* variant: the loop goes on after a failed command
ContinueLoopAnyway(ok, k, n) == k < n

\* ExecuteCommands: the loop goes on to the next command when runCommand
\* returned nil and a command is left
ContinueLoop(ok, k, n) == ok /\ k < n

\* ssh.go ExecuteCommands / runCommand: one iteration of the loop over the
\* commands.  runCommand opens a session (which may fail), runs the command
\* and returns its error; ExecuteCommands returns the first error, or nil
\* after the last command.
RunCommand ==
    /\ pc = "exec"
    /\ ex.ret = "running"
    /\ \E session \in BOOLEAN, exit0 \in BOOLEAN :
         LET ok == session /\ exit0
             started == IF session THEN Append(ex.started, ex.cmds[ex.k]) ELSE ex.started
             completed == IF ok THEN ex.ok + 1 ELSE ex.ok
             unit == IF ex.ctx \in {"bootstrap", "uninstallMaster"} THEN 0 ELSE wi
         IN  /\ op' = Op(ex.ctx, ci, unit, ex.k, ok)
             /\ IF ContinueLoop(ok, ex.k, Len(ex.cmds))
                  THEN /\ ex' = [ex EXCEPT !.k = @ + 1, !.started = started, !.ok = completed]
                       /\ UNCHANGED << clusters, pc, err, open, ci, wi >>
                  ELSE /\ ex' = [ex EXCEPT !.started = started, !.ok = completed,
                                           !.ret = IF ok THEN "nil" ELSE "err"]
                       /\ Return(ex.ctx, ok)
    /\ UNCHANGED << stateFile, Flags, Uninstall, oi, fetched >>
    /\ UNCHANGED components

(* ------------------------------ CreateCluster -------------------------- *)
\* variant: the bootstrap is run whatever cluster.Done says
NeedsBootstrapAlways(c) == TRUE

\* create.go 248: if !cluster.Done
NeedsBootstrap(c) == ~clusters[c].Done

\* variant: no worker is passed over
WorkerPendingAlways(c, w) == TRUE

\* create.go 366: the negation of `if worker.Done { continue }`
WorkerPending(c, w) == ~clusters[c].Workers[w].Done

\* create.go 235-250: sshConnect to the control plane of clusters[ci], then
\* the test of cluster.Done.  (`cluster` is the loop's copy of clusters[ci];
\* nothing writes clusters[ci].Done or PrivateNet between the copy and its
\* reads, and cluster.Workers shares its array with clusters[ci].Workers.)
ConnectCluster ==
    /\ pc = "connect"
    /\ fetched' = FALSE
    /\ \E dialed \in BOOLEAN :
         /\ op' = Op("connect", ci, 0, 0, dialed)
         /\ IF dialed
              THEN /\ open' = open \cup {<<ci, 0>>}
                   /\ UNCHANGED err
                   /\ IF NeedsBootstrap(ci)
                        THEN /\ ex' = Call("bootstrap", baseClusterCommands \o additional)
                             /\ pc' = "exec"
                        ELSE pc' = "workers" /\ ex' = NoCall
              ELSE \* return nil, err
                   Fatal("connect") /\ ex' = NoCall
    /\ UNCHANGED << stateFile, clusters, Flags, Uninstall, ci, wi, oi >>
    /\ UNCHANGED components

\* variant: a failure of saveKubeConfig ends the process
SaveKubeConfigFatal ==
    /\ pc = "kubeconfig"
    /\ \E read \in BOOLEAN, parsed \in BOOLEAN, written \in BOOLEAN :
         /\ op' = Op("kubeconfig", ci, 0, 0, read /\ parsed /\ written)
         /\ IF read /\ parsed /\ written
              THEN pc' = "labelMaster" /\ UNCHANGED << err, open >>
              ELSE Fatal("kubeconfig")
    /\ fetched' = TRUE
    /\ ex' = NoCall
    /\ UNCHANGED << stateFile, clusters, Flags, Uninstall, ci, wi, oi >>
    /\ UNCHANGED components

\* kubeconfig.go saveKubeConfig: read the remote file, parse and patch it,
\* write it; each failure is logged and ends saveKubeConfig without an error
SaveKubeConfig ==
    /\ pc = "kubeconfig"
    /\ \E read \in BOOLEAN, parsed \in BOOLEAN, written \in BOOLEAN :
         op' = Op("kubeconfig", ci, 0, 0, read /\ parsed /\ written)
    /\ fetched' = TRUE
    /\ pc' = "labelMaster"
    /\ ex' = NoCall
    /\ UNCHANGED << stateFile, clusters, Flags, Uninstall, ci, wi, oi, err, open >>
    /\ UNCHANGED components

\* create.go 261-284: label the master node through client-go; every
\* failure is logged only
LabelMaster ==
    /\ pc = "labelMaster"
    /\ \E patched \in BOOLEAN : op' = Op("label", ci, 0, 0, patched)
    /\ pc' = "optional"
    /\ oi' = 1
    /\ UNCHANGED << stateFile, clusters, Flags, Uninstall, ci, wi, ex, err, open, fetched >>
    /\ UNCHANGED components

\* the test of a component's flag is reached: the gitea-ingress test is
\* nested in the gitea branch (create.go 317-336)
Reached(name) == name = "gitea-ingress" => Flags["gitea"]

\* after the component at oi: the next one, or the worker loop
NextOptional ==
    IF oi < Len(OptionalComponents)
      THEN oi' = oi + 1 /\ UNCHANGED pc
      ELSE oi' = 1 /\ pc' = "workers"

\* create.go 287-361: a component whose flag is not set (or whose test is
\* not reached) is passed over
SkipOptional ==
    /\ pc = "optional"
    /\ LET name == OptionalComponents[oi]
       IN  ~(Reached(name) /\ Flags[name])
    /\ op' = NoOp
    /\ NextOptional
    /\ UNCHANGED << stateFile, clusters, Flags, Uninstall, ci, wi, ex, err, open, fetched >>
    /\ UNCHANGED components

\* create.go 287-353: applyYAMLManifest / installHelmChart of an enabled
\* component; its error is logged and the run goes on
ApplyOptional ==
    /\ pc = "optional"
    /\ LET name == OptionalComponents[oi]
       IN  /\ name \notin LinkerdComponents
           /\ Reached(name) /\ Flags[name]
    /\ \E applied \in BOOLEAN : op' = Op("optional", ci, 0, oi, applied)
    /\ NextOptional
    /\ UNCHANGED << stateFile, clusters, Flags, Uninstall, ci, wi, ex, err, open, fetched >>
    /\ UNCHANGED components

\* create.go 356-361 with runLinkerdInstall and pipeAndApply (585-607): when
\* `kubectl apply` of the rendered linkerd manifests fails, pipeAndApply calls
\* log.Fatalf
RunLinkerdInstall ==
    /\ pc = "optional"
    /\ LET name == OptionalComponents[oi]
       IN  name \in LinkerdComponents /\ Flags[name]
    /\ \E applied \in BOOLEAN :
         /\ op' = Op("optional", ci, 0, oi, applied)
         /\ IF applied
              THEN NextOptional /\ UNCHANGED << err, open >>
              ELSE Fatal("linkerd") /\ UNCHANGED oi
    /\ UNCHANGED << stateFile, clusters, Flags, Uninstall, ci, wi, ex, fetched >>
    /\ UNCHANGED components

\* create.go 365-368: a worker that is already done is passed over; after
\* the last worker the loop ends
WorkerLoop ==
    /\ pc = "workers"
    /\ IF wi > NumWorkers
         THEN pc' = "logFiles" /\ UNCHANGED wi
         ELSE /\ ~WorkerPending(ci, wi)
              /\ wi' = wi + 1
              /\ UNCHANGED pc
    /\ op' = NoOp /\ ex' = NoCall
    /\ UNCHANGED << stateFile, clusters, Flags, Uninstall, ci, oi, err, open, fetched >>
    /\ UNCHANGED components

\* create.go 426-429: logFiles(logger), then the next cluster or the return
LogFiles ==
    /\ pc = "logFiles"
    /\ NextCluster("connect")
    /\ op' = NoOp
    /\ UNCHANGED << stateFile, clusters, Flags, Uninstall, oi, ex, err, fetched >>
    /\ UNCHANGED components

\* variant: the worker is always reached by a direct connection
JoinTokenDirectOnly ==
    /\ pc = "workers"
    /\ wi <= NumWorkers
    /\ WorkerPending(ci, wi)
    /\ clusters' = [clusters EXCEPT ![ci].Workers[wi].Done = TRUE]
    /\ \E token \in BOOLEAN :
         /\ op' = Op("token", ci, wi, 0, token)
         /\ IF ~token
              THEN wi' = wi + 1 /\ UNCHANGED pc /\ ex' = NoCall
              ELSE UNCHANGED wi /\ ex' = NoCall /\ pc' = "dial"
    /\ UNCHANGED << stateFile, Flags, Uninstall, ci, oi, err, open, fetched >>
    /\ UNCHANGED components

\* create.go 369-387: the worker is marked done, then the join token is
\* requested from the control plane; a token error is logged and the loop
\* continues with the next worker
JoinToken ==
    /\ pc = "workers"
    /\ wi <= NumWorkers
    /\ WorkerPending(ci, wi)
    /\ clusters' = [clusters EXCEPT ![ci].Workers[wi].Done = TRUE]
    /\ \E token \in BOOLEAN :
         /\ op' = Op("token", ci, wi, 0, token)
         /\ IF ~token
              THEN wi' = wi + 1 /\ UNCHANGED pc /\ ex' = NoCall
              ELSE /\ UNCHANGED wi
                   /\ IF clusters[ci].PrivateNet
                        THEN ex' = Call("join", joinCmdsRelay) /\ pc' = "exec"
                        ELSE ex' = NoCall /\ pc' = "dial"
    /\ UNCHANGED << stateFile, Flags, Uninstall, ci, oi, err, open, fetched >>
    /\ UNCHANGED components

\* create.go 390-402: the direct connection to the worker; a dial error is
\* logged and the loop continues with the next worker
DialWorker ==
    /\ pc = "dial"
    /\ \E dialed \in BOOLEAN :
         /\ op' = Op("dial", ci, wi, 0, dialed)
         /\ IF dialed
              THEN /\ open' = open \cup {<<ci, 1>>}
                   /\ ex' = Call("join", joinCmdsDirect)
                   /\ pc' = "exec"
                   /\ UNCHANGED wi
              ELSE wi' = wi + 1 /\ pc' = "workers" /\ UNCHANGED << open, ex >>
    /\ UNCHANGED << stateFile, clusters, Flags, Uninstall, ci, oi, err, fetched >>
    /\ UNCHANGED components

\* create.go 405-423: label the worker node; every failure is logged only
LabelWorker ==
    /\ pc = "label"
    /\ \E patched \in BOOLEAN : op' = Op("label", ci, wi, 0, patched)
    /\ wi' = wi + 1
    /\ pc' = "workers"
    /\ ex' = NoCall
    /\ UNCHANGED << stateFile, clusters, Flags, Uninstall, ci, oi, err, open, fetched >>
    /\ UNCHANGED components

(* ------------------------------ UninstallCluster ----------------------- *)
\* uninstall.go 19-32: sshConnect to the control plane of clusters[ci]
UninstallConnect ==
    /\ pc = "unconnect"
    /\ \E dialed \in BOOLEAN :
         /\ op' = Op("connect", ci, 0, 0, dialed)
         /\ IF dialed
              THEN /\ open' = open \cup {<<ci, 0>>}
                   /\ pc' = "unworkers"
                   /\ UNCHANGED err
              ELSE Fatal("connect")
    /\ ex' = NoCall
    /\ UNCHANGED << stateFile, clusters, Flags, Uninstall, ci, wi, oi, fetched >>
    /\ UNCHANGED components

\* variant: the master is uninstalled before the workers are looked at
UninstallUnitMasterFirst ==
    /\ pc = "unworkers"
    /\ IF clusters[ci].Done
         THEN /\ ex' = Call("uninstallMaster", uninstallMasterCmds)
              /\ pc' = "exec"
              /\ UNCHANGED << wi, ci, open >>
         ELSE IF wi <= NumWorkers
                THEN IF clusters[ci].Workers[wi].Done
                       THEN /\ ex' = Call("uninstallWorker", uninstallWorkerCmds)
                            /\ pc' = "exec"
                            /\ UNCHANGED << wi, ci, open >>
                       ELSE wi' = wi + 1 /\ ex' = NoCall /\ UNCHANGED << pc, ci, open >>
                ELSE NextCluster("unconnect") /\ ex' = NoCall
    /\ op' = NoOp
    /\ UNCHANGED << stateFile, clusters, Flags, Uninstall, oi, err, fetched >>
    /\ UNCHANGED components

\* uninstall.go 35-52: the agent of each done worker is uninstalled through
\* the control plane, then the master if cluster.Done
UninstallUnit ==
    /\ pc = "unworkers"
    /\ IF wi <= NumWorkers
         THEN IF clusters[ci].Workers[wi].Done
                THEN /\ ex' = Call("uninstallWorker", uninstallWorkerCmds)
                     /\ pc' = "exec"
                     /\ UNCHANGED << wi, ci, open >>
                ELSE wi' = wi + 1 /\ ex' = NoCall /\ UNCHANGED << pc, ci, open >>
         ELSE IF clusters[ci].Done
                THEN /\ ex' = Call("uninstallMaster", uninstallMasterCmds)
                     /\ pc' = "exec"
                     /\ UNCHANGED << wi, ci, open >>
                ELSE NextCluster("unconnect") /\ ex' = NoCall
    /\ op' = NoOp
    /\ UNCHANGED << stateFile, clusters, Flags, Uninstall, oi, err, fetched >>
    /\ UNCHANGED components

Next ==
    \/ Main
    \/ SaveClusters
    \/ ConnectCluster
    \/ RunCommand
    \/ SaveKubeConfig
    \/ LabelMaster
    \/ SkipOptional
    \/ ApplyOptional
    \/ RunLinkerdInstall
    \/ WorkerLoop
    \/ LogFiles
    \/ JoinToken
    \/ DialWorker
    \/ LabelWorker
    \/ UninstallConnect
    \/ UninstallUnit

Spec == Init /\ [][Next]_vars

\* the orchestration is not running: the state of a specification that
\* studies one component on its own
FleetIdle ==
    /\ stateFile = [c \in ClusterIds |-> UniformCluster(FALSE, FALSE)]
    /\ clusters = stateFile
    /\ Flags = DefaultFlags
    /\ Uninstall = FALSE
    /\ pc = "start"
    /\ ci = 1 /\ wi = 1 /\ oi = 1
    /\ ex = NoCall
    /\ err = "none"
    /\ open = {}
    /\ op = NoOp
    /\ fetched = FALSE

(* ------------------------------ manifest.go: texts --------------------- *)
\* A Go string is modelled as the sequence of its characters.
\* the characters the explored texts are made of
Chars == {"a", "\n", "-", "#", " "}
\* unicode.IsSpace, over the characters of the model
WhiteSpace == {" ", "\n", "\t", "\r"}

\* every text of at most n characters
Texts(n) == UNION {[1..k -> Chars] : k \in 0..n}

\* strings.HasPrefix(s, p)
HasPrefix(s, p) == Len(s) >= Len(p) /\ SubSeq(s, 1, Len(p)) = p

\* sep occurs in s at position i
OccursAt(s, sep, i) == i >= 1 /\ i + Len(sep) - 1 <= Len(s) /\ SubSeq(s, i, i + Len(sep) - 1) = sep

\* strings.Split(s, sep) for a non-empty sep: s is cut at the occurrences of
\* sep found from left to right without overlap; SplitFrom is the scan at
\* position i of the piece that began at position start
RECURSIVE SplitFrom(_, _, _, _)
SplitFrom(s, sep, start, i) ==
    IF i + Len(sep) - 1 > Len(s)
      THEN << SubSeq(s, start, Len(s)) >>
      ELSE IF OccursAt(s, sep, i)
             THEN << SubSeq(s, start, i - 1) >> \o SplitFrom(s, sep, i + Len(sep), i + Len(sep))
             ELSE SplitFrom(s, sep, start, i + 1)
Split(s, sep) == SplitFrom(s, sep, 1, 1)

\* strings.TrimSpace(s)
RECURSIVE TrimLeft(_)
TrimLeft(s) == IF s # << >> /\ Head(s) \in WhiteSpace THEN TrimLeft(Tail(s)) ELSE s
RECURSIVE TrimRight(_)
TrimRight(s) ==
    IF s # << >> /\ s[Len(s)] \in WhiteSpace THEN TrimRight(SubSeq(s, 1, Len(s) - 1)) ELSE s
TrimSpace(s) == TrimRight(TrimLeft(s))

\* variant: the separator without its leading newline
YAMLSeparatorBare == << "-", "-", "-" >>

\* manifest.go 47: the separator "\n---"
YAMLSeparator == << "\n", "-", "-", "-" >>

\* manifest.go 48-54: the loop over rawDocs, from piece i on
RECURSIVE KeepDocs(_, _)
KeepDocs(rawDocs, i) ==
    IF i > Len(rawDocs)
      THEN << >>
      ELSE LET doc == TrimSpace(rawDocs[i])
           IN  IF doc = << >> \/ HasPrefix(doc, << "#" >>)
                 THEN KeepDocs(rawDocs, i + 1)
                 ELSE << doc >> \o KeepDocs(rawDocs, i + 1)

\* manifest.go 45-56
splitYAMLDocs(data) == KeepDocs(Split(data, YAMLSeparator), 1)

\* "a: 1\n---\nb: 2\n---\n# c\n\n"
ExampleManifest ==
    << "a", ":", " ", "1", "\n", "-", "-", "-", "\n",
       "b", ":", " ", "2", "\n", "-", "-", "-", "\n", "#", " ", "c", "\n", "\n" >>

\* a call splitYAMLDocs(data) is about to run
InitSplit ==
    /\ FleetIdle
    /\ helm = Idle /\ conn = Idle /\ run = Idle /\ lg = Idle /\ kc = Idle /\ feed = Idle
    /\ \E data \in Texts(MaxTextLen) \cup {ExampleManifest} :
         mf = [fn |-> "splitYAMLDocs", data |-> data, docs |-> << >>, returned |-> FALSE]

\* the call runs and returns
SplitYAMLDocs ==
    /\ mf.fn = "splitYAMLDocs"
    /\ ~mf.returned
    /\ mf' = [mf EXCEPT !.docs = splitYAMLDocs(mf.data), !.returned = TRUE]
    /\ UNCHANGED << fleet, helm, conn, run, lg, kc, feed >>

NextSplit == SplitYAMLDocs

SpecSplit == InitSplit /\ [][NextSplit]_vars

(* ------------------------------ manifest.go: applySubstitutions ------- *)
\* strings.ReplaceAll(s, old, new) for a non-empty old: the occurrences of
\* old found from left to right without overlap are replaced by new
RECURSIVE ReplaceFrom(_, _, _, _)
ReplaceFrom(s, old, new, i) ==
    IF i > Len(s)
      THEN << >>
      ELSE IF OccursAt(s, old, i)
             THEN new \o ReplaceFrom(s, old, new, i + Len(old))
             ELSE << s[i] >> \o ReplaceFrom(s, old, new, i + 1)
\* variant: strings.Replace(s, old, new, 1), only the first occurrence
ReplaceOnce(s, old, new) ==
    LET at == {i \in 1..Len(s) : OccursAt(s, old, i)}
    IN  IF at = {}
          THEN s
          ELSE LET m == CHOOSE i \in at : \A j \in at : i <= j
               IN  SubSeq(s, 1, m - 1) \o new \o SubSeq(s, m + Len(old), Len(s))
ReplaceAll(s, old, new) == ReplaceFrom(s, old, new, 1)

\* a Go map[string]string: nil, or the function from its keys to its values
NilMap == [isNil |-> TRUE, kv |-> << >>]
MapOf(kv) == [isNil |-> FALSE, kv |-> kv]

\* the orders in which `for k, v := range substitutions` may visit the keys:
\* Go leaves the iteration order of a map unspecified
RangeOrders(kv) ==
    {o \in [1..Cardinality(DOMAIN kv) -> DOMAIN kv] :
        \A i, j \in DOMAIN o : i # j => o[i] # o[j]}

\* manifest.go 39-41: the loop, visiting the keys in order o from index i on
RECURSIVE ReplaceInOrder(_, _, _, _)
ReplaceInOrder(content, kv, o, i) ==
    IF i > Len(o)
      THEN content
      ELSE ReplaceInOrder(ReplaceAll(content, o[i], kv[o[i]]), kv, o, i + 1)

\* manifest.go 34-43: the results applySubstitutions may return
applySubstitutions(data, substitutions) ==
    IF substitutions.isNil
      THEN {data}
      ELSE {ReplaceInOrder(data, substitutions.kv, o, 1) : o \in RangeOrders(substitutions.kv)}

\* the two spellings of the placeholder: "${DOMAIN}" and "DOMAIN"
Bare == << "D", "O", "M", "A", "I", "N" >>
Bracketed == << "$", "{" >> \o Bare \o << "}" >>
\* "host: git."
HostGit == << "h", "o", "s", "t", ":", " ", "g", "i", "t", "." >>
\* "example.com"
ExampleCom == << "e", "x", "a", "m", "p", "l", "e", ".", "c", "o", "m" >>

\* the pieces the explored texts are made of
Tokens == { << "x" >>, << "$", "{" >>, << "}" >>, Bare }
RECURSIVE Concat(_)
Concat(q) == IF q = << >> THEN << >> ELSE Head(q) \o Concat(Tail(q))
TokenTexts(n) == {Concat(q) : q \in UNION {[1..k -> Tokens] : k \in 0..n}}

\* the substitution maps explored: nil, empty, one spelling, both spellings
\* (create.go 311: both spellings mapped to cluster.Domain)
Substitutions ==
    {NilMap, MapOf(<< >>)} \cup
    {MapOf([k \in ks |-> d]) :
        ks \in {{Bracketed}, {Bare}, {Bracketed, Bare}}, d \in {<< "d" >>, ExampleCom}}

\* a call applySubstitutions(data, substitutions) is about to run
InitSubst ==
    /\ FleetIdle
    /\ helm = Idle /\ conn = Idle /\ run = Idle /\ lg = Idle /\ kc = Idle /\ feed = Idle
    /\ \E data \in TokenTexts(MaxTokens) \cup {HostGit \o Bracketed}, subs \in Substitutions :
         mf = [fn |-> "applySubstitutions", data |-> data, subs |-> subs,
               out |-> << >>, returned |-> FALSE]

\* the call runs and returns
ApplySubstitutions ==
    /\ mf.fn = "applySubstitutions"
    /\ ~mf.returned
    /\ \E out \in applySubstitutions(mf.data, mf.subs) :
         mf' = [mf EXCEPT !.out = out, !.returned = TRUE]
    /\ UNCHANGED << fleet, helm, conn, run, lg, kc, feed >>

NextSubst == ApplySubstitutions

SpecSubst == InitSubst /\ [][NextSubst]_vars

(* ------------------------------ manifest.go: applyYAMLManifest -------- *)
\* the objects a document may describe, by name
ObjectNames == {"a", "b"}
\* a document: whether it decodes, whether the cluster knows its kind, and
\* the object it describes
Docs == [name : ObjectNames, decodes : BOOLEAN, mapped : BOOLEAN]
Manifests == UNION {[1..k -> Docs] : k \in 0..MaxDocs}

\* the answers resource.Create may give for an object of the given name
CreateAnswers(name, objects) ==
    {"failed"} \cup (IF name \in objects THEN {"AlreadyExists"} ELSE {"created"})

\* variant: every answer but success counts as an error
IsApplyErrorStrict(answer) == answer # "created"
\* manifest.go 97: err != nil && !errors.IsAlreadyExists(err)
IsApplyError(answer) == answer # "created" /\ answer # "AlreadyExists"

\* variant: an object that exists is overwritten with the document
SpecAfterOverwrite(specs, name, answer) ==
    IF answer \in {"created", "AlreadyExists"} THEN [specs EXCEPT ![name] = "document"] ELSE specs
\* manifest.go 96: resource.Create is the only request: the spec of the
\* named object is the document's when it was created, and stays otherwise
SpecAfter(specs, name, answer) ==
    IF answer = "created" THEN [specs EXCEPT ![name] = "document"] ELSE specs

\* logger.Log of a failure of the current document
LogDoc(m, what) == [m EXCEPT !.logged = @ \cup {<< m.i, what >>}]
\* the end of the loop body: on to the next document
NextDoc(m) == [m EXCEPT !.i = @ + 1]
\* variant: the failure is returned instead of skipping the document
ReturnDocError(m) == [m EXCEPT !.i = Len(m.docs) + 1, !.ret = "err"]
\* manifest.go 83, 89: `continue` after a decode or mapping failure
SkipDoc(m) == NextDoc(m)

\* applyYAMLManifest is called on a manifest and a cluster holding objects
\* (had: the objects at the call; specs: what each object's spec is, the one
\* it had earlier or the one of a document)
InitApply ==
    /\ FleetIdle
    /\ helm = Idle /\ conn = Idle /\ run = Idle /\ lg = Idle /\ kc = Idle /\ feed = Idle
    /\ \E docs \in Manifests, objects \in SUBSET ObjectNames :
         mf = [fn |-> "applyYAMLManifest", docs |-> docs, objects |-> objects,
               pass |-> 1, started |-> FALSE, i |-> 1, ret |-> "running",
               logged |-> {}, attempted |-> {}, answers |-> {}, made |-> {},
               log1 |-> {}, after1 |-> {}, had |-> objects,
               specs |-> [n \in ObjectNames |-> IF n \in objects THEN "earlier" ELSE "none"]]

\* manifest.go 58-77: read the manifest and build the clients; any of these
\* failing returns the error before a document is looked at
ApplyPrepare ==
    /\ mf.fn = "applyYAMLManifest"
    /\ mf.ret = "running"
    /\ ~mf.started
    /\ \E ok \in BOOLEAN :
         mf' = IF ok THEN [mf EXCEPT !.started = TRUE] ELSE [mf EXCEPT !.ret = "err"]
    /\ UNCHANGED << fleet, helm, conn, run, lg, kc, feed >>

\* manifest.go 78-100: one iteration of the loop over the documents
ApplyDoc ==
    /\ mf.fn = "applyYAMLManifest"
    /\ mf.ret = "running"
    /\ mf.started
    /\ mf.i <= Len(mf.docs)
    /\ LET d == mf.docs[mf.i]
           m == [mf EXCEPT !.attempted = @ \cup {mf.i}]
       IN  \/ /\ ~d.decodes
              /\ mf' = SkipDoc(LogDoc(m, "decode"))
           \/ /\ d.decodes
              /\ \E known \in (IF d.mapped THEN BOOLEAN ELSE {FALSE}) :
                   IF ~known
                     THEN mf' = SkipDoc(LogDoc(m, "mapping"))
                     ELSE \E answer \in CreateAnswers(d.name, mf.objects) :
                            LET c == [m EXCEPT
                                        !.answers = @ \cup {<< mf.i, answer >>},
                                        !.objects = IF answer = "created" THEN @ \cup {d.name} ELSE @,
                                        !.made = IF answer = "created" THEN @ \cup {d.name} ELSE @,
                                        !.specs = SpecAfter(@, d.name, answer)]
                            IN  mf' = NextDoc(IF IsApplyError(answer) THEN LogDoc(c, "apply") ELSE c)
    /\ UNCHANGED << fleet, helm, conn, run, lg, kc, feed >>

\* manifest.go 101: return nil after the last document
ApplyReturn ==
    /\ mf.fn = "applyYAMLManifest"
    /\ mf.ret = "running"
    /\ mf.started
    /\ mf.i > Len(mf.docs)
    /\ mf' = [mf EXCEPT !.ret = "nil"]
    /\ UNCHANGED << fleet, helm, conn, run, lg, kc, feed >>

\* the same manifest is applied to the same cluster a second time
ApplyAgain ==
    /\ mf.fn = "applyYAMLManifest"
    /\ mf.ret = "nil"
    /\ mf.pass = 1
    /\ mf' = [mf EXCEPT !.pass = 2, !.started = FALSE, !.i = 1, !.ret = "running",
                         !.logged = {}, !.attempted = {}, !.answers = {}, !.made = {},
                         !.log1 = mf.logged, !.after1 = mf.objects]
    /\ UNCHANGED << fleet, helm, conn, run, lg, kc, feed >>

NextApply == ApplyPrepare \/ ApplyDoc \/ ApplyReturn \/ ApplyAgain

SpecApply == InitApply /\ [][NextApply]_vars

(* ------------------------------ helm_native.go ------------------------ *)
ReleaseNames == {"r", "o"}
Namespaces == {"n", "m"}
\* a release of the cluster: its name and its namespace
Releases == ReleaseNames \X Namespaces

\* variant: the releases are searched whatever rels.Run() returned
FoundDespiteError(listed, releases, releaseName, namespace) ==
    \E r \in releases : r[1] = releaseName /\ r[2] = namespace

\* helm_native.go 91-103: found, from the result of rels.Run()
Found(listed, releases, releaseName, namespace) ==
    listed /\ \E r \in releases : r[1] = releaseName /\ r[2] = namespace

\* a time.Duration (a count of nanoseconds) as whole seconds and the rest
NoTimeout == [sec |-> 0, nsec |-> 0]
\* helm_native.go 112: install.Timeout = 600 * time.Second
InstallTimeout == [sec |-> 600, nsec |-> 0]
\* helm_native.go 136: upgrade.Timeout = 600
UpgradeTimeout == [sec |-> 0, nsec |-> 600]

\* variant: the action runs without the atomic option
ActionOptionsPlain(atomic) == [wait |-> TRUE, atomic |-> FALSE]
\* helm_native.go 109-110 and 133-134: Atomic = utils.HelmAtomic, Wait = true
ActionOptions(atomic) == [wait |-> TRUE, atomic |-> atomic]

\* installHelmChartNative is called for a release and a namespace of a
\* cluster that holds some releases (existing: the releases at the call),
\* with some repositories registered in the repository file ("target": the
\* one named by repoName) and utils.HelmAtomic set or not
InitHelm ==
    /\ FleetIdle
    /\ mf = Idle /\ conn = Idle /\ run = Idle /\ lg = Idle /\ kc = Idle /\ feed = Idle
    /\ \E releaseName \in ReleaseNames, namespace \in Namespaces, releases \in SUBSET Releases,
          registered \in SUBSET {"target", "other"}, atomic \in BOOLEAN :
         helm = [fn |-> "installHelmChartNative", releaseName |-> releaseName,
                 namespace |-> namespace, releases |-> releases, existing |-> releases,
                 at |-> "repos", found |-> FALSE, path |-> "none", ret |-> "running",
                 registered |-> registered, refreshed |-> {}, resolved |-> FALSE,
                 HelmAtomic |-> atomic, options |-> ActionOptions(FALSE), acted |-> "none",
                 listErr |-> "none", timeout |-> NoTimeout]

\* helm_native.go 23-48: load the repository file; when the target is not
\* registered, fetch its index and write it to the file
HelmRegister ==
    /\ helm.fn = "installHelmChartNative"
    /\ helm.at = "repos"
    /\ \E ok \in BOOLEAN :
         helm' = IF ok THEN [helm EXCEPT !.at = "refresh", !.registered = @ \cup {"target"}]
                       ELSE [helm EXCEPT !.at = "done", !.ret = "err"]
    /\ UNCHANGED << fleet, mf, conn, run, lg, kc, feed >>

\* helm_native.go 50-62: one iteration of the loop over the registered
\* repositories: fetch the index; a failure returns an error
HelmRefresh ==
    /\ helm.fn = "installHelmChartNative"
    /\ helm.at = "refresh"
    /\ \E re \in helm.registered \ helm.refreshed, ok \in BOOLEAN :
         helm' = IF ok THEN [helm EXCEPT !.refreshed = @ \cup {re}]
                       ELSE [helm EXCEPT !.at = "done", !.ret = "err"]
    /\ UNCHANGED << fleet, mf, conn, run, lg, kc, feed >>

\* variant: the chart is resolved once the target repository is refreshed
HelmPrepareEarly ==
    /\ helm.fn = "installHelmChartNative"
    /\ helm.at = "refresh"
    /\ "target" \in helm.refreshed
    /\ \E ok \in BOOLEAN :
         helm' = IF ok THEN [helm EXCEPT !.at = "list", !.resolved = TRUE]
                       ELSE [helm EXCEPT !.at = "done", !.ret = "err"]
    /\ UNCHANGED << fleet, mf, conn, run, lg, kc, feed >>

\* helm_native.go 63-89, after the loop over the repositories: action
\* configuration, namespace, values, then the chart is located and loaded;
\* a failure of any of them returns an error
HelmPrepare ==
    /\ helm.fn = "installHelmChartNative"
    /\ helm.at = "refresh"
    /\ helm.refreshed = helm.registered
    /\ \E ok \in BOOLEAN :
         helm' = IF ok THEN [helm EXCEPT !.at = "list", !.resolved = TRUE]
                       ELSE [helm EXCEPT !.at = "done", !.ret = "err"]
    /\ UNCHANGED << fleet, mf, conn, run, lg, kc, feed >>

\* helm_native.go 91-103: list the releases of the namespace and look for
\* the release; an error of the listing leaves found false
HelmList ==
    /\ helm.fn = "installHelmChartNative"
    /\ helm.at = "list"
    /\ \E listed \in BOOLEAN :
         helm' = [helm EXCEPT !.at = "act",
                              !.listErr = IF listed THEN "nil" ELSE "err",
                              !.found = Found(listed, {r \in helm.releases : r[2] = helm.namespace},
                                              helm.releaseName, helm.namespace)]
    /\ UNCHANGED << fleet, mf, conn, run, lg, kc, feed >>

\* helm_native.go 105-152: install.Run or upgrade.Run, then return; an
\* install under a name that is in use fails
HelmAct ==
    /\ helm.fn = "installHelmChartNative"
    /\ helm.at = "act"
    /\ \E ok \in (IF ~helm.found /\ << helm.releaseName, helm.namespace >> \in helm.releases
                    THEN {FALSE} ELSE BOOLEAN) :
         helm' = [helm EXCEPT !.at = "done",
                              !.path = IF helm.found THEN "upgrade" ELSE "install",
                              !.ret = IF ok THEN "nil" ELSE "err",
                              !.options = ActionOptions(helm.HelmAtomic),
                              !.timeout = IF helm.found THEN UpgradeTimeout ELSE InstallTimeout,
                              !.acted = IF ok THEN "succeeded" ELSE "failed",
                              !.releases = IF ok /\ ~helm.found
                                             THEN @ \cup {<< helm.releaseName, helm.namespace >>}
                                             ELSE @]
    /\ UNCHANGED << fleet, mf, conn, run, lg, kc, feed >>

NextHelm == HelmRegister \/ HelmRefresh \/ HelmPrepare \/ HelmList \/ HelmAct

SpecHelm == InitHelm /\ [][NextHelm]_vars

(* ------------------------------ sshConnect ---------------------------- *)
\* an entry of ~/.ssh: a directory, a *.pub file, a file without a .pub
\* sibling, a file that cannot be read, a file that is no private key, or
\* a private key that parses
KeyFiles == {"dir", "pub", "lonely", "unreadable", "garbage", "key"}
\* the passwords tried: none and one
Passwords == {"", "p"}

\* the callback given to filepath.WalkDir: the auth methods after the entry
WalkEntry(authMethods, entry) ==
    IF entry = "key" THEN Append(authMethods, "publickey") ELSE authMethods

\* variant: the check of the auth methods is left out
NoAuthMethodsIgnored(authMethods) == FALSE
\* len(authMethods) == 0
NoAuthMethods(authMethods) == Len(authMethods) = 0

\* sshConnect is called with a password, ~/.ssh holding some entries
InitConn ==
    /\ FleetIdle
    /\ mf = Idle /\ helm = Idle /\ run = Idle /\ lg = Idle /\ kc = Idle /\ feed = Idle
    /\ \E files \in UNION {[1..k -> KeyFiles] : k \in 0..MaxKeyFiles}, password \in Passwords :
         conn = [fn |-> "sshConnect", files |-> files, password |-> password,
                 at |-> "user", i |-> 1, authMethods |-> << >>,
                 dialed |-> FALSE, ret |-> "running"]

\* user.Current()
ConnUser ==
    /\ conn.fn = "sshConnect"
    /\ conn.at = "user"
    /\ \E ok \in BOOLEAN :
         conn' = IF ok THEN [conn EXCEPT !.at = "walk"]
                       ELSE [conn EXCEPT !.at = "done", !.ret = "no current user"]
    /\ UNCHANGED << fleet, mf, helm, run, lg, kc, feed >>

\* filepath.WalkDir visits the next entry of ~/.ssh
ConnWalk ==
    /\ conn.fn = "sshConnect"
    /\ conn.at = "walk"
    /\ conn.i <= Len(conn.files)
    /\ conn' = [conn EXCEPT !.i = @ + 1,
                             !.authMethods = WalkEntry(@, conn.files[conn.i])]
    /\ UNCHANGED << fleet, mf, helm, run, lg, kc, feed >>

\* after the walk: the password, the check of the auth methods, ssh.Dial
ConnDial ==
    /\ conn.fn = "sshConnect"
    /\ conn.at = "walk"
    /\ conn.i > Len(conn.files)
    /\ LET authMethods == IF conn.password # ""
                            THEN Append(conn.authMethods, "password")
                            ELSE conn.authMethods
       IN  IF NoAuthMethods(authMethods)
             THEN conn' = [conn EXCEPT !.at = "done", !.authMethods = authMethods,
                                       !.ret = "no usable SSH authentication methods found"]
             ELSE \E ok \in BOOLEAN :
                    conn' = [conn EXCEPT !.at = "done", !.authMethods = authMethods,
                                         !.dialed = TRUE,
                                         !.ret = IF ok THEN "nil" ELSE "dial failed"]
    /\ UNCHANGED << fleet, mf, helm, run, lg, kc, feed >>

NextConn == ConnUser \/ ConnWalk \/ ConnDial

SpecConn == InitConn /\ [][NextConn]_vars

(* ------------------------------ runCommand, streamOutput -------------- *)
\* the two pipes of a session, each read by its own streamOutput task
Streams == {"stdout", "stderr"}

\* runCommand is called for one command
InitRun ==
    /\ FleetIdle
    /\ mf = Idle /\ helm = Idle /\ conn = Idle /\ lg = Idle /\ kc = Idle /\ feed = Idle
    /\ run = [fn |-> "runCommand", at |-> "session", ret |-> "running",
              exited |-> FALSE,
              written |-> [st \in Streams |-> 0],
              read |-> [st \in Streams |-> 0],
              eof |-> [st \in Streams |-> FALSE]]

\* client.NewSession(); on success the pipes are taken, the two
\* streamOutput tasks are started with `go` and session.Run(cmd) begins
RunSession ==
    /\ run.fn = "runCommand"
    /\ run.at = "session"
    /\ \E ok \in BOOLEAN :
         run' = IF ok THEN [run EXCEPT !.at = "run"]
                      ELSE [run EXCEPT !.at = "returned", !.ret = "failed to create session"]
    /\ UNCHANGED << fleet, mf, helm, conn, lg, kc, feed >>

\* the remote command writes a line to one of its streams
RemoteWrite ==
    /\ run.fn = "runCommand"
    /\ run.at = "run"
    /\ ~run.exited
    /\ \E st \in Streams :
         /\ run.written[st] < MaxLines
         /\ run' = [run EXCEPT !.written[st] = @ + 1]
    /\ UNCHANGED << fleet, mf, helm, conn, lg, kc, feed >>

\* the remote command exits
RemoteExit ==
    /\ run.fn = "runCommand"
    /\ run.at = "run"
    /\ ~run.exited
    /\ run' = [run EXCEPT !.exited = TRUE]
    /\ UNCHANGED << fleet, mf, helm, conn, lg, kc, feed >>

\* a streamOutput task: scanner.Scan() yields a line, which is logged
StreamOutput ==
    /\ run.fn = "runCommand"
    /\ \E st \in Streams :
         /\ ~run.eof[st]
         /\ run.read[st] < run.written[st]
         /\ run' = [run EXCEPT !.read[st] = @ + 1]
    /\ UNCHANGED << fleet, mf, helm, conn, lg, kc, feed >>

\* a streamOutput task: scanner.Scan() reports the end of the stream and
\* the task ends
StreamEnd ==
    /\ run.fn = "runCommand"
    /\ run.exited
    /\ \E st \in Streams :
         /\ ~run.eof[st]
         /\ run.read[st] = run.written[st]
         /\ run' = [run EXCEPT !.eof[st] = TRUE]
    /\ UNCHANGED << fleet, mf, helm, conn, lg, kc, feed >>

\* session.Run(cmd) returns once the command has exited; runCommand closes
\* the session and returns to its caller
RunReturn ==
    /\ run.fn = "runCommand"
    /\ run.at = "run"
    /\ run.exited
    /\ \E ok \in BOOLEAN :
         run' = [run EXCEPT !.at = "returned", !.ret = IF ok THEN "nil" ELSE "exit status"]
    /\ UNCHANGED << fleet, mf, helm, conn, lg, kc, feed >>

NextRun ==
    RunSession \/ RemoteWrite \/ RemoteExit \/ StreamOutput \/ StreamEnd \/ RunReturn

SpecRun == InitRun /\ [][NextRun]_vars

(* ------------------------------ logger.go ----------------------------- *)
\* the channels of a Logger: Stdout, Stderr, File, Cmd
Classes == {"Stdout", "Stderr", "File", "Cmd"}
\* make(chan ..., 100)
QueueCap == 100

\* the messages of a class are numbered in the order they are accepted;
\* one class is busy, the others carry at most one message
SendLimit(l, c) == IF c = l.busy THEN l.start + MaxBurst ELSE 1

\* variant: a send goes through whatever the queue holds
CanSendAlways(q) == TRUE
\* a send on a buffered channel goes through when the buffer has room
CanSend(q) == Len(q) < QueueCap

\* NewLogger, and the four consumers started by main; the busy class has
\* been sent `start` messages that no consumer has received yet
InitLg ==
    /\ FleetIdle
    /\ mf = Idle /\ helm = Idle /\ conn = Idle /\ run = Idle /\ kc = Idle /\ feed = Idle
    /\ \E busy \in Classes, start \in {0, QueueCap - 1} :
         lg = [fn |-> "logger", busy |-> busy, start |-> start,
               q |-> [c \in Classes |-> IF c = busy THEN [k \in 1..start |-> k] ELSE << >>],
               sent |-> [c \in Classes |-> IF c = busy THEN start ELSE 0],
               calling |-> [c \in Classes |-> FALSE],
               last |-> [c \in Classes |-> 0],
               exited |-> FALSE]

\* `l.X <- message`: a producer enters the send, and the send completes
\* when the channel takes the message
Produce(c) ==
    /\ lg.fn = "logger"
    /\ ~lg.exited
    /\ \/ /\ ~lg.calling[c]
          /\ lg.sent[c] < SendLimit(lg, c)
          /\ lg' = [lg EXCEPT !.calling[c] = TRUE]
       \/ /\ lg.calling[c]
          /\ CanSend(lg.q[c])
          /\ lg' = [lg EXCEPT !.calling[c] = FALSE,
                              !.sent[c] = @ + 1,
                              !.q[c] = Append(@, lg.sent[c] + 1)]
    /\ UNCHANGED << fleet, mf, helm, conn, run, kc, feed >>

\* `for logMessage := range l.X`: the consumer receives the oldest message
\* and prints it
Consume(c) ==
    /\ lg.fn = "logger"
    /\ ~lg.exited
    /\ lg.q[c] # << >>
    /\ lg' = [lg EXCEPT !.q[c] = Tail(@), !.last[c] = Head(lg.q[c])]
    /\ UNCHANGED << fleet, mf, helm, conn, run, kc, feed >>

Log == Produce("Stdout")
LogErr == Produce("Stderr")
LogFile == Produce("File")
LogCmd == Produce("Cmd")
LogWorker == Consume("Stdout")
LogWorkerErr == Consume("Stderr")
LogWorkerFile == Consume("File")
LogWorkerCmd == Consume("Cmd")

\* cli/main.go 14-60: main returns after SaveClusters, or leaves through
\* log.Fatalf; the process ends with it, and the four consumers, which main
\* never waits for, end where they are.  main is the only producer, so it
\* is not inside a send when it leaves.
MainExit ==
    /\ lg.fn = "logger"
    /\ ~lg.exited
    /\ \A c \in Classes : ~lg.calling[c]
    /\ lg' = [lg EXCEPT !.exited = TRUE]
    /\ UNCHANGED << fleet, mf, helm, conn, run, kc, feed >>

NextLg ==
    \/ Log \/ LogErr \/ LogFile \/ LogCmd
    \/ LogWorker \/ LogWorkerErr \/ LogWorkerFile \/ LogWorkerCmd
    \/ MainExit

SpecLg == InitLg /\ [][NextLg]_vars

(* ------------------------------ kubeconfig.go ------------------------- *)
\* kubeconfig.go 109-114: the key a `range` over the map yields first (any
\* of them), or "" for an empty map
getFirstKey(m) == IF DOMAIN m = {} THEN {""} ELSE DOMAIN m

\* variant: the entry is copied to the new key and the old key is kept
patchKeyCopy(m, nodeName, oldKey) ==
    IF oldKey # "" /\ oldKey # nodeName
      THEN [k \in DOMAIN m \cup {nodeName} |-> IF k = nodeName THEN m[oldKey] ELSE m[k]]
      ELSE m
\* kubeconfig.go 118-124 with the set and del closures of 125-136: the
\* entry of oldKey is stored under nodeName, then oldKey is deleted
patchKey(m, nodeName, oldKey) ==
    IF oldKey # "" /\ oldKey # nodeName
      THEN [k \in (DOMAIN m \ {oldKey}) \cup {nodeName} |->
                IF k = nodeName THEN m[oldKey] ELSE m[k]]
      ELSE m

\* patchKubeConfigKeys(config, nodeName) is called on a config with one
\* cluster, one user and one context
InitKc ==
    /\ FleetIdle
    /\ mf = Idle /\ helm = Idle /\ conn = Idle /\ run = Idle /\ lg = Idle /\ feed = Idle
    /\ LET Names == {"default", "node-1", "node-2"}
       IN  \E c \in Names, u \in Names, x \in Names, rc \in Names, ru \in Names,
              cur \in Names, nodeName \in {"node-1", "node-2"} :
             LET config == [Clusters |-> [k \in {c} |-> "server"],
                            AuthInfos |-> [k \in {u} |-> "credentials"],
                            Contexts |-> [k \in {x} |-> [Cluster |-> rc, AuthInfo |-> ru]],
                            CurrentContext |-> cur]
             IN  kc = [fn |-> "patchKubeConfigKeys", nodeName |-> nodeName,
                       source |-> config, config |-> config, returned |-> FALSE]

\* kubeconfig.go 117-142
patchKubeConfigKeys ==
    /\ kc.fn = "patchKubeConfigKeys"
    /\ ~kc.returned
    /\ \E oc \in getFirstKey(kc.config.Clusters), ou \in getFirstKey(kc.config.AuthInfos),
          ox \in getFirstKey(kc.config.Contexts) :
         LET n == kc.nodeName
             Contexts == patchKey(kc.config.Contexts, n, ox)
         IN  kc' = [kc EXCEPT
                      !.returned = TRUE,
                      !.config = [Clusters |-> patchKey(kc.config.Clusters, n, oc),
                                  AuthInfos |-> patchKey(kc.config.AuthInfos, n, ou),
                                  Contexts |-> IF n \in DOMAIN Contexts
                                                 THEN [Contexts EXCEPT ![n] = [Cluster |-> n, AuthInfo |-> n]]
                                                 ELSE Contexts,
                                  CurrentContext |-> n]]
    /\ UNCHANGED << fleet, mf, helm, conn, run, lg, feed >>

SpecKc == InitKc /\ [][patchKubeConfigKeys]_vars

(* ------------------------------ from the command to the log ----------- *)
\* A remote command runs under runCommand; the lines of each of its streams
\* are numbered from 1 in the order written.  pipe: the lines written and
\* not yet scanned; q: the channel the stream's reader logs to (Stdout for
\* stdout, Stderr for stderr), where 0 stands for a message of the
\* orchestration thread; last: the last line of the stream printed.
InitFeed ==
    /\ FleetIdle
    /\ mf = Idle /\ helm = Idle /\ conn = Idle /\ run = Idle /\ lg = Idle /\ kc = Idle
    /\ feed = [fn |-> "streamOutput",
               written |-> [s \in Streams |-> 0],
               pipe |-> [s \in Streams |-> << >>],
               q |-> [s \in Streams |-> << >>],
               said |-> [s \in Streams |-> FALSE],
               last |-> [s \in Streams |-> 0]]

\* the remote command writes the next line of one of its streams
FeedWrite ==
    /\ feed.fn = "streamOutput"
    /\ \E s \in Streams :
         /\ feed.written[s] < MaxLines
         /\ feed' = [feed EXCEPT !.written[s] = @ + 1,
                                 !.pipe[s] = Append(@, feed.written[s] + 1)]
    /\ UNCHANGED << fleet, mf, helm, conn, run, lg, kc >>

\* streamOutput: scanner.Scan() yields the oldest unread line of the stream
\* and logger.Log / logger.LogErr sends it to the channel
FeedRead ==
    /\ feed.fn = "streamOutput"
    /\ \E s \in Streams :
         /\ feed.pipe[s] # << >>
         /\ CanSend(feed.q[s])
         /\ feed' = [feed EXCEPT !.pipe[s] = Tail(@),
                                 !.q[s] = Append(@, Head(feed.pipe[s]))]
    /\ UNCHANGED << fleet, mf, helm, conn, run, lg, kc >>

\* the orchestration thread logs a message of its own (runCommand's
\* "SSH session closed successfully." or "Error closing SSH session")
FeedThread ==
    /\ feed.fn = "streamOutput"
    /\ \E s \in Streams :
         /\ ~feed.said[s]
         /\ CanSend(feed.q[s])
         /\ feed' = [feed EXCEPT !.said[s] = TRUE, !.q[s] = Append(@, 0)]
    /\ UNCHANGED << fleet, mf, helm, conn, run, lg, kc >>

\* variant: the consumer prints the newest message of the channel
FeedPrintNewest ==
    /\ feed.fn = "streamOutput"
    /\ \E s \in Streams :
         /\ feed.q[s] # << >>
         /\ LET m == feed.q[s][Len(feed.q[s])]
            IN  feed' = [feed EXCEPT !.q[s] = SubSeq(@, 1, Len(@) - 1),
                                    !.last[s] = IF m = 0 THEN @ ELSE m]
    /\ UNCHANGED << fleet, mf, helm, conn, run, lg, kc >>

\* LogWorker / LogWorkerErr: the consumer receives the oldest message of
\* its channel and prints it
FeedPrint ==
    /\ feed.fn = "streamOutput"
    /\ \E s \in Streams :
         /\ feed.q[s] # << >>
         /\ LET m == Head(feed.q[s])
            IN  feed' = [feed EXCEPT !.q[s] = Tail(@),
                                    !.last[s] = IF m = 0 THEN @ ELSE m]
    /\ UNCHANGED << fleet, mf, helm, conn, run, lg, kc >>

SpecFeed == InitFeed /\ [][FeedWrite \/ FeedRead \/ FeedThread \/ FeedPrint]_vars

(* ------------------------------ properties ----------------------------- *)
\* the control plane and every worker of cluster record cl are done
AllDone(cl) == cl.Done /\ \A w \in WorkerIds : cl.Workers[w].Done

\* the process runs CreateCluster and has not yet saved: stateFile still is
\* the fleet the run started from
Creating == ~Uninstall /\ pc \notin {"start", "done"}

\* the kinds of remote operation that bootstrap a cluster or join a worker
ProvisioningKinds == {"bootstrap", "token", "dial", "join"}

\* C1: full idempotence.  In a CreateCluster run, no bootstrap command, no
\* join-token request and no join command (nor a worker connection for one)
\* is issued for a cluster that started the run with done=true on the
\* cluster and on all of its workers.
FullIdempotence ==
    (Creating /\ op.kind \in ProvisioningKinds) => ~AllDone(stateFile[op.c])

\* a run has gone through the whole iteration of a cluster that was
\* completely done, and is not at the first cluster
FullIdempotenceWitness ==
    /\ Creating /\ pc = "logFiles" /\ ci > 1
    /\ AllDone(stateFile[ci])
    /\ (<<ci, 0>> \in open)

\* C2 as stated: at the end of the iteration of every cluster whose control
\* plane was reached, saveKubeConfig has been called for it in this run,
\* whatever its done flag was at the start.
KubeconfigAlwaysFetched ==
    (Creating /\ pc = "logFiles") => fetched

\* the cluster of record cl is done and exactly its worker w0 is not
OneWorkerPending(cl, w0) ==
    /\ cl.Done
    /\ \A w \in WorkerIds : cl.Workers[w].Done <=> (w # w0)

\* C3: partial resume.  When a cluster starts the run with done=true and
\* exactly one worker w0 with done=false, every provisioning operation of
\* the run for that cluster is for w0 and none is a bootstrap command; and
\* when the run leaves the cluster's worker loop the join sequence of w0 has
\* been entered (its token was requested).
PartialResume ==
    Creating =>
        /\ op.kind \in ProvisioningKinds =>
                \A w0 \in WorkerIds :
                    OneWorkerPending(stateFile[op.c], w0)
                        => (op.w = w0 /\ op.kind # "bootstrap")
        /\ pc = "logFiles" =>
                \A w0 \in WorkerIds :
                    OneWorkerPending(stateFile[ci], w0) => clusters[ci].Workers[w0].Done

\* the last join command of the one pending worker has succeeded
PartialResumeWitness ==
    \E c \in ClusterIds, w0 \in WorkerIds :
        /\ Creating /\ OneWorkerPending(stateFile[c], w0)
        /\ op = Op("join", c, w0, Len(joinCmdsRelay), TRUE)

\* C4 as stated: in a CreateCluster run a worker's done flag is true only
\* once its join commands have completed: it is false while the join of
\* that worker is still in progress, and it is false after a failed token
\* request or a failed direct connection for that worker.
DoneOnlyAfterJoin ==
    Creating =>
        /\ (pc = "dial" \/ (pc = "exec" /\ ex.ctx = "join" /\ ex.ret = "running"))
                => ~clusters[ci].Workers[wi].Done
        /\ (op.kind \in {"token", "dial"} /\ ~op.ok)
                => ~clusters[op.c].Workers[op.w].Done

\* the first n elements of sequence q
Prefix(q, n) == SubSeq(q, 1, n)

\* C5: a failed bootstrap.  When a bootstrap command (or its session) fails,
\* the process ends there: the cluster's done flag is false in memory and in
\* the state file, no flag of the cluster has changed, saveKubeConfig was
\* not called for it, the failed command is the last remote operation and
\* no step follows.  A bootstrap sequence is never resumed in the middle:
\* while one runs, exactly the commands before the current one have been
\* started in this run, beginning with the first.
BootstrapAllOrNothing ==
    /\ err = "bootstrap" =>
            /\ pc = "fatal"
            /\ ~clusters[ci].Done /\ ~stateFile[ci].Done
            /\ clusters[ci] = stateFile[ci]
            /\ ~fetched
            /\ op.kind = "bootstrap" /\ op.c = ci /\ ~op.ok
            /\ ~ENABLED Next
    /\ (ex.ctx = "bootstrap" /\ ex.ret = "running") =>
            /\ ~stateFile[ci].Done
            /\ ex.started = Prefix(baseClusterCommands \o additional, ex.k - 1)

\* a bootstrap failed after its first command had succeeded
BootstrapAllOrNothingWitness ==
    /\ err = "bootstrap" /\ ex.ctx = "bootstrap" /\ ex.ok >= 1

\* C6 as stated: when the run aborts on a failed join, every control plane
\* bootstrapped by then (done=true in memory) is done=true in the state
\* file.
AbortPersistsCompleted ==
    (~Uninstall /\ pc = "fatal" /\ err = "join") =>
        \A c \in ClusterIds : clusters[c].Done => stateFile[c].Done

\* some done flag of cluster record a is true and the same flag is false in b
Reset(a, b) ==
    \/ a.Done /\ ~b.Done
    \/ \E w \in WorkerIds : a.Workers[w].Done /\ ~b.Workers[w].Done

\* C7: done is monotonic during provisioning.  A step that turns a done
\* flag of the in-memory fleet from true to false is the return of an
\* uninstall command in an UninstallCluster run; no step turns a flag of the
\* persisted fleet to false unless it is the save of such a run.
DoneMonotonic ==
    [][ (\E c \in ClusterIds : Reset(clusters[c], clusters'[c]) \/ Reset(stateFile[c], stateFile'[c]))
            => (Uninstall /\ ((pc = "exec" /\ ex.ctx \in {"uninstallWorker", "uninstallMaster"})
                               \/ pc = "save")) ]_vars

\* a CreateCluster run has set a worker's flag and came to the failure of
\* that worker's join
DoneMonotonicWitness ==
    /\ ~Uninstall /\ err = "join"
    /\ clusters[ci].Workers[wi].Done /\ ~stateFile[ci].Workers[wi].Done

\* C8 as stated: a failed optional component never ends the process.
OptionalFailureIsolated ==
    (op.kind = "optional" /\ ~op.ok) => pc # "fatal"

\* C9 as stated: when a CreateCluster run ends on a required-path failure
\* (connection, bootstrap command, join command), every cluster of the fleet
\* has been processed: the failure is on the last cluster.
FailureHaltsOneCluster ==
    (~Uninstall /\ pc = "fatal" /\ err \in {"connect", "bootstrap", "join"})
        => ci = NumClusters

\* C10: ExecuteCommands.  The commands started are a prefix of the list, in
\* list order; a command is started only when all before it have completed
\* successfully; the call returns nil only after the whole list succeeded
\* and returns an error at the first failure, with at most the failing
\* command started after the successful ones; after the return no command
\* of the call can be started.
ExecuteCommandsInOrder ==
    ex.ctx # "none" =>
        /\ ex.started = Prefix(ex.cmds, Len(ex.started))
        /\ ex.ok <= Len(ex.started) /\ Len(ex.started) <= ex.ok + 1
        /\ ex.ret = "running" => (Len(ex.started) = ex.ok /\ ex.k = ex.ok + 1)
        /\ ex.ret = "nil" => (ex.ok = Len(ex.cmds) /\ ex.started = ex.cmds)
        /\ ex.ret = "err" => (ex.ok < Len(ex.cmds) /\ op.k = ex.ok + 1 /\ ~op.ok)
        /\ ex.ret # "running" => ~ENABLED RunCommand

\* a call returned the error of its second command and left later commands
\* of its list unstarted
ExecuteCommandsInOrderWitness ==
    /\ ex.ret = "err" /\ ex.ok = 1
    /\ Len(ex.started) = 2 /\ Len(ex.cmds) > 2

\* the number of places of text s where sep occurs
Occurrences(s, sep) == Cardinality({i \in 1..Len(s) : OccursAt(s, sep, i)})

\* C11: splitYAMLDocs splits only at a newline followed by three dashes.
\* The example manifest yields exactly the documents "a: 1" and "b: 2" in
\* that order.  A text that begins with "---" and a newline and holds no
\* newline followed by three dashes comes back as one document, the whole
\* trimmed text with its leading dashes.  There is at most one document more
\* than there are separators, and a document holds no separator, is not
\* empty, is not a comment and has no white space at its ends.
SplitOnlyAtSeparator ==
    (mf.fn = "splitYAMLDocs" /\ mf.returned) =>
        LET sep == << "\n", "-", "-", "-" >>
        IN  /\ mf.data = ExampleManifest =>
                    mf.docs = << << "a", ":", " ", "1" >>, << "b", ":", " ", "2" >> >>
            /\ (HasPrefix(mf.data, << "-", "-", "-", "\n" >>) /\ Occurrences(mf.data, sep) = 0) =>
                    /\ Len(mf.docs) = 1
                    /\ HasPrefix(mf.docs[1], << "-", "-", "-" >>)
                    /\ \E b \in 0..Len(mf.data) :
                          mf.docs[1] = SubSeq(mf.data, 1, Len(mf.data) - b)
            /\ Len(mf.docs) <= Occurrences(mf.data, sep) + 1
            /\ \A i \in 1..Len(mf.docs) :
                    /\ Occurrences(mf.docs[i], sep) = 0
                    /\ mf.docs[i] # << >>
                    /\ mf.docs[i][1] \notin WhiteSpace \cup {"#"}
                    /\ mf.docs[i][Len(mf.docs[i])] \notin WhiteSpace

\* the example manifest has been split
SplitExampleWitness ==
    /\ mf.fn = "splitYAMLDocs" /\ mf.returned
    /\ mf.data = ExampleManifest /\ Len(mf.docs) = 2

\* text s with each occurrence of a key of kv replaced by the key's value,
\* an occurrence of the longer key being taken whole
RECURSIVE Replaced(_, _, _)
Replaced(s, kv, i) ==
    IF i > Len(s)
      THEN << >>
      ELSE LET here == {k \in DOMAIN kv : OccursAt(s, k, i)}
           IN  IF here = {}
                 THEN << s[i] >> \o Replaced(s, kv, i + 1)
                 ELSE LET k == CHOOSE k \in here : \A l \in here : Len(l) <= Len(k)
                      IN  kv[k] \o Replaced(s, kv, i + Len(k))

BothSpellingsAnyOrder ==
    (mf.fn = "applySubstitutions" /\ mf.returned /\ ~mf.subs.isNil
        /\ DOMAIN mf.subs.kv = {Bracketed, Bare}) =>
        /\ \A o \in RangeOrders(mf.subs.kv) :
                mf.out = ReplaceInOrder(mf.data, mf.subs.kv, o, 1)
        /\ mf.data = HostGit \o Bracketed => mf.out = HostGit \o mf.subs.kv[Bare]

\* C13: when a manifest whose first apply reported no failure is applied a
\* second time to the same cluster, no create request of the second apply
\* creates anything: it answers already-exists (or fails in transit), an
\* already-exists answer is not logged, the call does not return an error
\* once it has reached the documents, and the objects of the cluster stay
\* those left by the first apply.
ApplyIdempotent ==
    (mf.fn = "applyYAMLManifest" /\ mf.pass = 2 /\ mf.log1 = {} /\ mf.started) =>
        /\ mf.ret # "err"
        /\ mf.objects = mf.after1
        /\ mf.made = {}
        /\ \A a \in mf.answers :
              /\ a[2] # "created"
              /\ a[2] = "AlreadyExists" => << a[1], "apply" >> \notin mf.logged

\* a second apply has returned after an already-exists answer
ApplyIdempotentWitness ==
    /\ mf.fn = "applyYAMLManifest"
    /\ mf.pass = 2
    /\ mf.log1 = {}
    /\ mf.ret = "nil"
    /\ mf.logged = {}
    /\ mf.after1 # {}
    /\ \E a \in mf.answers : a[2] = "AlreadyExists"

\* C20: once applyYAMLManifest has reached the documents it returns no
\* error; a document that fails to decode, to map or to be created is
\* logged, every document is attempted by the time the call returns, and
\* what was created from earlier documents is still in the cluster.
DocumentFailureIsolated ==
    (mf.fn = "applyYAMLManifest" /\ mf.started) =>
        /\ mf.ret # "err"
        /\ mf.made \subseteq mf.objects
        /\ mf.attempted = 1..(mf.i - 1)
        /\ mf.ret = "nil" => mf.attempted = DOMAIN mf.docs
        /\ \A k \in mf.attempted :
              LET failed == \/ ~mf.docs[k].decodes
                            \/ ~mf.docs[k].mapped
                            \/ << k, "failed" >> \in mf.answers
                            \/ \A a \in mf.answers : a[1] # k
              IN  failed <=> \E what \in {"decode", "mapping", "apply"} : << k, what >> \in mf.logged

\* the first document failed, the second was created, the call returned nil
DocumentFailureIsolatedWitness ==
    /\ mf.fn = "applyYAMLManifest"
    /\ mf.ret = "nil"
    /\ Len(mf.docs) = 2
    /\ \E what \in {"decode", "mapping", "apply"} : << 1, what >> \in mf.logged
    /\ << 2, "created" >> \in mf.answers
    /\ mf.docs[2].name \in mf.objects

\* C14 as stated: a call of installHelmChartNative that has looked for the
\* release and returned has invoked exactly one path: the upgrade path when
\* the release was present in the namespace, the install path when it was
\* not.
InstallOrUpgrade ==
    (helm.fn = "installHelmChartNative" /\ helm.at = "done" /\ helm.path # "none") =>
        LET present == << helm.releaseName, helm.namespace >> \in helm.existing
        IN  helm.path = IF present THEN "upgrade" ELSE "install"

\* some entry of ~/.ssh is a private key that parses
HasParsableKey == \E k \in DOMAIN conn.files : conn.files[k] = "key"

\* C15: sshConnect dials only with at least one auth method, each of them a
\* parsed key or the non-empty password; with no parsable key and an empty
\* password the call that reaches the check returns the authentication
\* error and has not dialed.
DialNeedsAuthMethod ==
    conn.fn = "sshConnect" =>
        /\ conn.dialed =>
              /\ conn.authMethods # << >>
              /\ HasParsableKey \/ conn.password # ""
              /\ \A k \in DOMAIN conn.authMethods :
                    \/ conn.authMethods[k] = "publickey" /\ HasParsableKey
                    \/ conn.authMethods[k] = "password" /\ conn.password # ""
        /\ (~HasParsableKey /\ conn.password = "") =>
              /\ ~conn.dialed
              /\ conn.at = "done" => conn.ret \in {"no usable SSH authentication methods found",
                                                  "no current user"}

\* a call with unusable key files and no password has returned the
\* authentication error
DialNeedsAuthMethodWitness ==
    /\ conn.fn = "sshConnect"
    /\ conn.at = "done"
    /\ conn.files # << >>
    /\ ~HasParsableKey
    /\ conn.password = ""
    /\ conn.ret = "no usable SSH authentication methods found"
    /\ ~conn.dialed

\* C16 as stated: when runCommand has returned from a command it started,
\* the command has exited and both streamOutput tasks have read their
\* stream to the end.
CallerWaitsForReaders ==
    (run.fn = "runCommand" /\ run.at = "returned" /\ run.ret # "failed to create session") =>
        /\ run.exited
        /\ \A st \in Streams : run.eof[st] /\ run.read[st] = run.written[st]

\* every class holds at most QueueCap messages, and the messages accepted
\* so far are, in the order accepted, those printed followed by those queued
QueuesIntact ==
    lg.fn = "logger" =>
        \A c \in Classes :
            /\ Len(lg.q[c]) <= QueueCap
            /\ lg.q[c] = [k \in 1..Len(lg.q[c]) |-> lg.last[c] + k]
            /\ lg.last[c] + Len(lg.q[c]) = lg.sent[c]

\* a producer inside a send on a full queue stays inside it, its message not
\* accepted, and only the consumer of that class changes the queue
BlockedWhileFull ==
    lg.fn = "logger" =>
        \A c \in Classes :
            (lg.calling[c] /\ Len(lg.q[c]) = QueueCap) =>
                /\ lg'.calling[c]
                /\ lg'.sent[c] = lg.sent[c]
                /\ lg'.q[c] \in {lg.q[c], Tail(lg.q[c])}

\* C17: each of the four classes has its own queue of capacity 100 with its
\* own consumer; a producer sending to a full queue blocks until the
\* consumer has taken a message, and no accepted message is dropped,
\* overwritten or reordered.
LoggerBackpressure == []QueuesIntact /\ [][BlockedWhileFull]_vars

\* a producer is blocked on a full queue
LoggerBackpressureWitness ==
    /\ lg.fn = "logger"
    /\ \E c \in Classes :
         /\ lg.calling[c]
         /\ Len(lg.q[c]) = QueueCap
         /\ lg.sent[c] = QueueCap

\* C18: provisioning is sequential.  The cluster index only moves to the
\* next cluster, and only when the work on the current cluster has ended:
\* no command sequence is left running and, when creating, every worker of
\* the cluster has been visited; the next cluster starts at its first
\* worker.  Within a cluster the worker index only moves to the next worker.
\* Every remote operation, and the one command sequence in progress, is for
\* the current cluster and the current worker.
StrictlySequential ==
    /\ ci' \in {ci, ci + 1}
    /\ ci' = ci + 1 =>
          /\ wi' = 1
          /\ ex'.ret # "running"
          /\ pc = "logFiles" \/ (Uninstall /\ wi > NumWorkers)
          /\ pc = "logFiles" => wi > NumWorkers
    /\ ci' = ci => wi' \in {wi, wi + 1} \/ (wi' = 1 /\ pc' \in {"save", "fatal", "done"})
    /\ op'.kind # "none" => op'.c = ci /\ op'.w \in {0, wi}
    /\ ex'.ret = "running" => pc' = "exec" /\ ci' = ci /\ wi' = wi

\* the join of the last worker of the last cluster is in progress
StrictlySequentialCase ==
    /\ pc = "exec"
    /\ ex.ctx = "join"
    /\ ex.ret = "running"
    /\ ex.k > 1
    /\ ci = NumClusters
    /\ wi = NumWorkers

\* C18 as an action property of every step
ProvisioningSequential == [][StrictlySequential]_vars

\* C21: applyYAMLManifest sends at most one create request per document in
\* an apply and nothing else: no object of the cluster is removed, and an
\* object that existed before the first apply keeps the spec it had, after
\* one apply and after two.
ExistingObjectsUntouched ==
    mf.fn = "applyYAMLManifest" =>
        /\ \A a, b \in mf.answers : a[1] = b[1] => a = b
        /\ mf.had \subseteq mf.objects
        /\ \A n \in mf.had : mf.specs[n] = "earlier"
        /\ \A n \in mf.objects \ mf.had : mf.specs[n] = "document"

\* a manifest naming an object that already existed was applied twice
ExistingObjectsUntouchedWitness ==
    /\ mf.fn = "applyYAMLManifest"
    /\ mf.pass = 2
    /\ mf.ret = "nil"
    /\ \E a \in mf.answers :
         /\ a[2] = "AlreadyExists"
         /\ mf.docs[a[1]].name \in mf.had
         /\ mf.specs[mf.docs[a[1]].name] = "earlier"

\* C22 as stated: the documents returned by splitYAMLDocs are, in their
\* original order, the trimmed segments that are neither blank nor made of
\* comment lines only; a segment holding a resource after a first "#" line
\* is kept.
KeepsCommentedDocuments ==
    (mf.fn = "splitYAMLDocs" /\ mf.returned) =>
        LET rawDocs == Split(mf.data, YAMLSeparator)
            trimmed == [k \in DOMAIN rawDocs |-> TrimSpace(rawDocs[k])]
            CommentOnly(doc) ==
                LET lines == Split(doc, << "\n" >>)
                IN  \A k \in DOMAIN lines :
                        TrimSpace(lines[k]) = << >> \/ HasPrefix(TrimSpace(lines[k]), << "#" >>)
            Kept(doc) == doc # << >> /\ ~CommentOnly(doc)
        IN  mf.docs = SelectSeq(trimmed, Kept)

\* the step that passes the optional component at oi applies it exactly
\* when the component's own flag is set
AppliedIffOwnFlag ==
    pc = "optional" =>
        ((op'.kind = "optional" /\ op'.k = oi) <=> Flags[OptionalComponents[oi]])

\* C23 as stated: during bootstrap each optional component is applied if and
\* only if its own flag is set, whatever the other flags are.
OptionalGatedByOwnFlag == [][AppliedIffOwnFlag]_vars

\* the step after a failed direct connection to a worker attempts no
\* worker of the same cluster
NoWorkerAfterFailedDial ==
    (op.kind = "dial" /\ ~op.ok) =>
        ~(op'.kind \in {"token", "dial", "join"} /\ op'.c = op.c)

\* C24 as stated: when the direct connection to a worker fails, no further
\* worker of that cluster is attempted in this run.
WorkerDialFailureFatal == [][NoWorkerAfterFailedDial]_vars

\* C25: the join of a worker follows the cluster's PrivateNet flag.  On a
\* private network the relayed commands are run and no connection to a
\* worker is attempted or open; otherwise the direct commands are run while
\* a connection to the worker is open.  The first join command of a worker
\* comes after a successful token request for that worker (and, when
\* direct, after the dial that follows the token).
JoinModeFollowsPrivateNet ==
    ~Uninstall =>
        /\ clusters[ci].PrivateNet =>
              /\ pc # "dial" /\ op.kind # "dial"
              /\ << ci, 1 >> \notin open
        /\ pc = "dial" => op = Op("token", ci, wi, 0, TRUE)
        /\ (ex.ctx = "join" /\ ex.ret = "running") =>
              /\ ex.cmds = IF clusters[ci].PrivateNet THEN joinCmdsRelay ELSE joinCmdsDirect
              /\ ~clusters[ci].PrivateNet => << ci, 1 >> \in open
              /\ ex.started = << >> =>
                    op = Op(IF clusters[ci].PrivateNet THEN "token" ELSE "dial", ci, wi, 0, TRUE)

\* a relayed join is past its first command
JoinModeFollowsPrivateNetWitness ==
    /\ ~Uninstall
    /\ clusters[ci].PrivateNet
    /\ ex.ctx = "join" /\ ex.ret = "running"
    /\ ex.cmds = joinCmdsRelay
    /\ ex.k = 2
    /\ open = {<< ci, 0 >>}

\* C26: the chart is resolved, the releases are listed and the install or
\* upgrade is run only after the index of every registered repository has
\* been refreshed, and a refresh starts only after the target repository is
\* registered.
RefreshBeforeResolve ==
    helm.fn = "installHelmChartNative" =>
        /\ helm.refreshed # {} => "target" \in helm.registered
        /\ helm.refreshed \subseteq helm.registered
        /\ (helm.resolved \/ helm.at \in {"list", "act"} \/ helm.path # "none") =>
              /\ "target" \in helm.registered
              /\ helm.refreshed = helm.registered

\* a call that refreshed a second repository has reached its action
RefreshBeforeResolveWitness ==
    /\ helm.fn = "installHelmChartNative"
    /\ helm.path # "none"
    /\ helm.refreshed = {"target", "other"}

\* C27: the install path and the upgrade path both run with wait enabled
\* and with the atomic option equal to utils.HelmAtomic, and a failed action
\* makes the call return an error.
HelmWaitAtomic ==
    (helm.fn = "installHelmChartNative" /\ helm.path # "none") =>
        /\ helm.options.wait
        /\ helm.options.atomic = helm.HelmAtomic
        /\ helm.acted = "failed" <=> helm.ret = "err"
        /\ helm.acted = "succeeded" <=> helm.ret = "nil"

\* an upgrade run with the atomic option has failed
HelmWaitAtomicWitness ==
    /\ helm.fn = "installHelmChartNative"
    /\ helm.path = "upgrade"
    /\ helm.HelmAtomic
    /\ helm.options.atomic
    /\ helm.acted = "failed"
    /\ helm.ret = "err"

\* C28: after patchKubeConfigKeys on a config with one cluster, one user
\* and one context, the only cluster, user and context are keyed by the node
\* name and hold what the source entries held, the context refers to the
\* cluster and the user by the node name, and current-context is the node
\* name.
KubeConfigRenamed ==
    (kc.fn = "patchKubeConfigKeys" /\ kc.returned) =>
        LET n == kc.nodeName
        IN  /\ DOMAIN kc.config.Clusters = {n}
            /\ DOMAIN kc.config.AuthInfos = {n}
            /\ DOMAIN kc.config.Contexts = {n}
            /\ kc.config.Clusters[n] = "server"
            /\ kc.config.AuthInfos[n] = "credentials"
            /\ kc.config.Contexts[n] = [Cluster |-> n, AuthInfo |-> n]
            /\ kc.config.CurrentContext = n

\* a config whose three entries were named "default" has been patched
KubeConfigRenamedWitness ==
    /\ kc.fn = "patchKubeConfigKeys"
    /\ kc.returned
    /\ DOMAIN kc.source.Clusters = {"default"}
    /\ DOMAIN kc.source.AuthInfos = {"default"}
    /\ DOMAIN kc.source.Contexts = {"default"}
    /\ DOMAIN kc.config.Clusters = {kc.nodeName}

\* the lines of each stream not yet printed are, in the order they will be
\* printed, the lines after the last one printed, in the order written
StreamInOrder ==
    feed.fn = "streamOutput" =>
        \A s \in Streams :
            LET IsLine(m) == m # 0
                coming == SelectSeq(feed.q[s], IsLine) \o feed.pipe[s]
            IN  coming = [k \in 1..(feed.written[s] - feed.last[s]) |-> feed.last[s] + k]

\* each step prints at most the next line of a stream
PrintsNextLine ==
    feed.fn = "streamOutput" =>
        \A s \in Streams : feed'.last[s] \in {feed.last[s], feed.last[s] + 1}

\* C29: the lines of a command's stdout are printed by the stdout consumer
\* in the order written, and likewise for stderr, under every interleaving
\* of the two readers, the orchestration thread and the consumers.
PerStreamOrder == []StreamInOrder /\ [][PrintsNextLine]_vars

\* every stderr line is printed while every stdout line, all written, waits
\* behind a message of the orchestration thread
PerStreamOrderWitness ==
    /\ feed.fn = "streamOutput"
    /\ feed.written["stdout"] = MaxLines
    /\ feed.last["stdout"] = 0
    /\ feed.last["stderr"] = MaxLines
    /\ Len(feed.q["stdout"]) = MaxLines + 1
    /\ Head(feed.q["stdout"]) = 0

\* C30: no optional component is applied, and none is looked at, for a
\* cluster whose done flag was true when the run started, whatever the
\* flags are.
OptionalOnlyOnBootstrap ==
    ~Uninstall =>
        /\ op.kind = "optional" => ~stateFile[op.c].Done
        /\ pc = "optional" => ~stateFile[ci].Done

\* a cluster that was done at the start has been processed with component
\* flags set
OptionalOnlyOnBootstrapWitness ==
    /\ ~Uninstall
    /\ pc = "logFiles"
    /\ stateFile[ci].Done
    /\ Flags["cert-manager"] /\ Flags["prometheus"] /\ Flags["linkerd"]

WorkersBeforeMasterRelayed ==
    Uninstall =>
        /\ pc # "dial" /\ op.kind # "dial"
        /\ \A h \in open : h[2] = 0
        /\ (ex.ctx = "uninstallWorker" /\ ex.ret = "running") =>
              /\ ex.cmds = << "ssh worker \"k3s-agent-uninstall.sh\"" >>
              /\ << ci, 0 >> \in open
              /\ clusters[ci].Done = stateFile[ci].Done
              /\ \A w \in WorkerIds : w < wi => ~clusters[ci].Workers[w].Done
        /\ (ex.ctx = "uninstallMaster" /\ ex.ret = "running") =>
              /\ ex.cmds = << "k3s-uninstall.sh" >>
              /\ << ci, 0 >> \in open
              /\ \A w \in WorkerIds : ~clusters[ci].Workers[w].Done

\* the master of a cluster that is not on a private network is being
\* uninstalled after the agent uninstall of its last worker was run
WorkersBeforeMasterRelayedWitness ==
    /\ Uninstall
    /\ ~clusters[ci].PrivateNet
    /\ ex.ctx = "uninstallMaster" /\ ex.ret = "running"
    /\ stateFile[ci].Workers[NumWorkers].Done
    /\ stateFile[ci].Workers[1].Done
    /\ \A w \in WorkerIds : ~clusters[ci].Workers[w].Done

\* C34 as stated: at any point of a CreateCluster run at most one connection
\* to a control plane is open, and every open connection belongs to the
\* cluster being processed: those of cluster i are closed before the
\* connection to cluster i+1 is opened.
OneControlPlaneConnection ==
    ~Uninstall =>
        /\ Cardinality({h \in open : h[2] = 0}) <= 1
        /\ \A h \in open : h[1] = ci

\* C35 as stated: every message accepted during a run has been emitted by
\* its consumer when the process terminates: once main has returned or has
\* left on a fatal error, the four queues are empty.
QueuesEmptyAtExit ==
    (lg.fn = "logger" /\ lg.exited) => \A c \in Classes : lg.q[c] = << >>

\* C36: installHelmChartNative takes the upgrade path only when the listing
\* of the releases succeeded and holds a release of the requested name in
\* the requested namespace.  When the listing failed, or holds only releases
\* of other names or namespaces, the install path is taken: the function
\* does not return at the listing, and what it returns is the outcome of
\* the install.
UpgradeOnlyWhenListed ==
    (helm.fn = "installHelmChartNative" /\ helm.listErr # "none") =>
        LET present == << helm.releaseName, helm.namespace >> \in helm.existing
        IN  /\ helm.found = (helm.listErr = "nil" /\ present)
            /\ helm.at \in {"act", "done"}
            /\ helm.at = "done" =>
                  /\ helm.path = IF helm.listErr = "nil" /\ present THEN "upgrade" ELSE "install"
                  /\ helm.acted # "none"
                  /\ helm.ret = IF helm.acted = "succeeded" THEN "nil" ELSE "err"

\* the listing failed, the install was run and succeeded, and nil is
\* returned, on a cluster that holds other releases
UpgradeOnlyWhenListedWitness ==
    /\ helm.fn = "installHelmChartNative"
    /\ helm.listErr = "err"
    /\ helm.at = "done"
    /\ helm.path = "install"
    /\ helm.ret = "nil"
    /\ helm.existing # {}

\* C37 as stated: the install path and the upgrade path of
\* installHelmChartNative wait with the same timeout of 600 seconds.
SameTimeout ==
    (helm.fn = "installHelmChartNative" /\ helm.path # "none") =>
        helm.timeout = [sec |-> 600, nsec |-> 0]

====
